---- MODULE Spec2Model ----
(***************************************************************************)
(* Model of the structural differ (src/src/diff.rs), the merger            *)
(* (src/src/merger.rs) and the generate pipeline (src/src/generator.rs)    *)
(* of Rust-Patchs-Templates.                                               *)
(*                                                                         *)
(* A syn::Item is a record [kind, ident, body].  A run is one call chain:  *)
(*   mode "generate"         generate() with an existing output file:      *)
(*                           patch = compute_patch(existing, generated),   *)
(*                           merge_patch(existing, patch, strategy);       *)
(*   mode "manual_additions" the call shape of the merger's own test       *)
(*                           test_merge_keep_manual_additions:             *)
(*                           patch = compute_patch([], new),               *)
(*                           merge_patch(base, patch, strategy);           *)
(*   mode "merge_patch"      merge_patch(base, patch, strategy) called     *)
(*                           with any patch.                               *)
(***************************************************************************)
EXTENDS Integers, Sequences, FiniteSets, TLC

VARIABLES
    mode,          \* which call chain this run is
    old_items,     \* compute_patch's first argument
    new_items,     \* compute_patch's second argument
    base_items,    \* merge_patch's base_items
    patch,         \* patch.operations
    strategy,      \* merge_patch's strategy
    merged_items,  \* merge_patch's local merged_items
    conflicts,     \* merge_patch's local conflicts
    base_map,      \* merge_patch's local base_map (HashMap<String, Item>)
    op_idx,        \* position of `for op in &patch.operations`
    pc,            \* "diff", "merge", "loop", "done" (merge_patch returned),
                   \* "bailed", "generated", "written"
    result,        \* what generate returned: None, Ok(text) or Err(message)
    stderr,        \* the lines generate printed with eprintln!
    output_file    \* the content of the file at output_path

io == <<result, stderr, output_file>>

vars == <<mode, old_items, new_items, base_items, patch, strategy,
          merged_items, conflicts, base_map, op_idx, pc, result, stderr,
          output_file>>

-----------------------------------------------------------------------------
(* Bounds *)

MaxItems == 2      \* longest item list drawn
MaxOps == 2        \* longest patch drawn in mode "merge_patch"

-----------------------------------------------------------------------------
(* Data model *)

Names == {"a", "b"}
Bodies == {"{}", "{ todo!() }"}

\* kinds of syn::Item for which extract_item_name returns Some
NamedKinds == {"Fn", "Struct", "Enum", "Trait", "Type", "Const", "Static", "Mod"}

NamedItems == [kind : {"Fn"}, ident : Names, body : Bodies]
UnnamedItems == [kind : {"Use"}, ident : {""}, body : {"std::fmt"}]
Items == NamedItems \cup UnnamedItems

None == <<>>
Some(x) == <<x>>

PreferTemplate == "PreferTemplate"
PreferManual == "PreferManual"
FailOnConflict == "FailOnConflict"
MergeStrategy == {PreferTemplate, PreferManual, FailOnConflict}

SeqsUpTo(S, n) == UNION {[1..k -> S] : k \in 0..n}
ItemLists == SeqsUpTo(Items, MaxItems)

\* extract_item_name: Option<String>
extract_item_name(item) ==
    IF item.kind \in NamedKinds THEN Some(item.ident) ELSE None

\* quote::quote!(#item).to_string(): the item's token string
to_string(item) ==
    IF item.kind = "Fn" THEN <<"fn", item.ident, "()", item.body>>
    ELSE IF item.kind = "Use" THEN <<"use", item.body, ";">>
    ELSE <<item.kind, item.ident, item.body>>

\* PatchOp
Insert(n, it) == [tag |-> "Insert", name |-> n, item |-> it]
Delete(n) == [tag |-> "Delete", name |-> n]
Modify(n, o, nw) == [tag |-> "Modify", name |-> n, old_item |-> o, new_item |-> nw]
Keep(n) == [tag |-> "Keep", name |-> n]

PatchOps ==
    {Insert(it.ident, it) : it \in NamedItems}
    \cup {Delete(n) : n \in Names}
    \cup {Modify(pr[1].ident, pr[1], pr[2]) :
             pr \in {q \in NamedItems \X NamedItems : q[1].ident = q[2].ident}}
    \cup {Keep(n) : n \in Names}
Patches == SeqsUpTo(PatchOps, MaxOps)

-----------------------------------------------------------------------------
(* diff.rs *)

\* iter().filter_map(extract_item_name).collect::<Vec<String>>()
RECURSIVE filter_map_names(_)
filter_map_names(items) ==
    IF items = <<>> THEN <<>>
    ELSE LET nm == extract_item_name(Head(items)) IN
         (IF nm = None THEN <<>> ELSE <<nm[1]>>) \o filter_map_names(Tail(items))

\* old_names.iter().position(|n| n == &name), as an index from 1
position(names, n) ==
    LET hits == {i \in 1..Len(names) : names[i] = n} IN
    IF hits = {} THEN None
    ELSE Some(CHOOSE i \in hits : \A j \in hits : i <= j)

\* the `for new_item in new_items` loop of compute_patch, from index i on:
\* acc is [ops, processed_old]
RECURSIVE walk_new(_, _, _, _, _)
walk_new(olds, old_names, news, i, acc) ==
    IF i > Len(news) THEN acc
    ELSE LET new_item == news[i]
             new_name == extract_item_name(new_item)
         IN
         IF new_name = None THEN walk_new(olds, old_names, news, i + 1, acc)
         ELSE LET name == new_name[1]
                  found == position(old_names, name)
              IN
              IF found # None
              THEN LET old_idx == found[1]
                       \* the index found in old_names indexes old_items
                       old_item == olds[old_idx]
                       op == IF to_string(old_item) # to_string(new_item)
                             THEN Modify(name, old_item, new_item)
                             ELSE Keep(name)
                   IN walk_new(olds, old_names, news, i + 1,
                               [ops |-> Append(acc.ops, op),
                                processed_old |-> acc.processed_old \cup {old_idx}])
              ELSE walk_new(olds, old_names, news, i + 1,
                            [ops |-> Append(acc.ops, Insert(name, new_item)),
                             processed_old |-> acc.processed_old])

\* the `for old_item in old_items` loop of compute_patch, from index i on
RECURSIVE deleted_ops(_, _, _)
deleted_ops(olds, processed_old, i) ==
    IF i > Len(olds) THEN <<>>
    ELSE LET nm == extract_item_name(olds[i]) IN
         (IF i \notin processed_old /\ nm # None THEN <<Delete(nm[1])>> ELSE <<>>)
         \o deleted_ops(olds, processed_old, i + 1)

compute_patch(olds, news) ==
    LET old_names == filter_map_names(olds)
        walked == walk_new(olds, old_names, news, 1,
                           [ops |-> <<>>, processed_old |-> {}])
    IN walked.ops \o deleted_ops(olds, walked.processed_old, 1)

\* Patch::is_empty
is_empty(ops) == \A i \in 1..Len(ops) : ops[i].tag = "Keep"

-----------------------------------------------------------------------------
(* merger.rs *)

\* base_items.iter().filter_map(..).collect::<HashMap<String, Item>>():
\* a later item of the same name replaces an earlier one
collect_base_map(items) ==
    LET named == {i \in 1..Len(items) : extract_item_name(items[i]) # None}
        keys == {items[i].ident : i \in named}
        last(n) == CHOOSE i \in named :
                       /\ items[i].ident = n
                       /\ \A j \in named : items[j].ident = n => j <= i
    IN [n \in keys |-> items[last(n)]]

contains_key(map, n) == n \in DOMAIN map
remove(map, n) == [k \in DOMAIN map \ {n} |-> map[k]]

\* the format! strings pushed to conflicts
ConflictInsertManual(n) == <<"Item '", n, "' exists in both base and patch">>
ConflictInsertFail(n) == <<"Conflict: Item '", n, "' exists in both base and patch">>
ConflictDeleteManual(n) == <<"Item '", n, "' was deleted in template but exists in base">>
ConflictDeleteFail(n) == <<"Conflict: Item '", n, "' was deleted in template but modified in base">>
ConflictModifyTemplate(n) == <<"Item '", n, "' has manual changes, overridden by template">>
ConflictModifyManual(n) == <<"Item '", n, "' has manual changes, template update skipped">>
ConflictModifyFail(n) == <<"Conflict: Item '", n, "' has manual changes conflicting with template">>

\* format_merged_code: the printed file, one printed item after the other
format_merged_code(items) == [i \in 1..Len(items) |-> to_string(items[i])]

-----------------------------------------------------------------------------
(* generator.rs, main.rs *)

Ok(x) == <<"Ok", x>>
Err(x) == <<"Err", x>>

\* anyhow::bail!("Merge conflicts detected:\n{}", conflicts.join("\n"))
bail_message(cs) == <<"Merge conflicts detected:">> \o cs

\* eprintln!("Warning: {}", conflict) for each conflict
warnings(cs) == [i \in 1..Len(cs) |-> <<"Warning: ", cs[i]>>]

-----------------------------------------------------------------------------
(* Initial states: the arguments of one call chain *)

InitGenerate ==
    /\ mode = "generate"
    /\ old_items \in ItemLists          \* existing_ast.items
    /\ new_items \in ItemLists          \* generated_ast.items
    /\ base_items = old_items
    /\ patch = <<>>
    /\ pc = "diff"

InitManualAdditions ==
    /\ mode = "manual_additions"
    /\ old_items = <<>>
    /\ new_items \in ItemLists
    /\ base_items \in ItemLists
    /\ patch = <<>>
    /\ pc = "diff"

InitMergePatch ==
    /\ mode = "merge_patch"
    /\ old_items = <<>>
    /\ new_items = <<>>
    /\ base_items \in ItemLists
    /\ patch \in Patches
    /\ pc = "merge"

InitLocals ==
    /\ strategy \in MergeStrategy
    /\ merged_items = <<>>
    /\ conflicts = <<>>
    /\ base_map = <<>>
    /\ op_idx = 1

\* the output file exists only in mode "generate"; its text parses to old_items
InitIo ==
    /\ result = None
    /\ stderr = <<>>
    /\ output_file = IF mode = "generate" THEN format_merged_code(old_items) ELSE <<>>

Init ==
    /\ (InitGenerate \/ InitManualAdditions \/ InitMergePatch)
    /\ InitLocals
    /\ InitIo

-----------------------------------------------------------------------------
(* Actions *)

\* let patch = compute_patch(&old, &new)?
ComputePatch ==
    /\ pc = "diff"
    /\ patch' = compute_patch(old_items, new_items)
    /\ pc' = "merge"
    /\ UNCHANGED io
    /\ UNCHANGED <<mode, old_items, new_items, base_items, strategy,
                   merged_items, conflicts, base_map, op_idx>>

\* entry of merge_patch: the three locals
MergeStart ==
    /\ pc = "merge"
    /\ merged_items' = <<>>
    /\ conflicts' = <<>>
    /\ base_map' = collect_base_map(base_items)
    /\ op_idx' = 1
    /\ pc' = "loop"
    /\ UNCHANGED io
    /\ UNCHANGED <<mode, old_items, new_items, base_items, patch, strategy>>

AtOp(tag) == pc = "loop" /\ op_idx <= Len(patch) /\ patch[op_idx].tag = tag

NextOp ==
    /\ op_idx' = op_idx + 1
    /\ UNCHANGED io
    /\ UNCHANGED <<mode, old_items, new_items, base_items, patch, strategy, pc>>

\* MergeInsert with base_map.remove(name) left out under PreferTemplate
MergeInsert_TemplateKeepsEntry ==
    /\ AtOp("Insert")
    /\ LET name == patch[op_idx].name
           item == patch[op_idx].item
       IN
       IF contains_key(base_map, name)
       THEN CASE strategy = PreferTemplate ->
                   /\ merged_items' = Append(merged_items, item)
                   /\ UNCHANGED <<base_map, conflicts>>
              [] strategy = PreferManual ->
                   /\ merged_items' = Append(merged_items, base_map[name])
                   /\ base_map' = remove(base_map, name)
                   /\ conflicts' = Append(conflicts, ConflictInsertManual(name))
              [] strategy = FailOnConflict ->
                   /\ conflicts' = Append(conflicts, ConflictInsertFail(name))
                   /\ UNCHANGED <<merged_items, base_map>>
       ELSE /\ merged_items' = Append(merged_items, item)
            /\ UNCHANGED <<base_map, conflicts>>
    /\ NextOp

\* PatchOp::Insert { name, item }
MergeInsert ==
    /\ AtOp("Insert")
    /\ LET name == patch[op_idx].name
           item == patch[op_idx].item
       IN
       IF contains_key(base_map, name)
       THEN CASE strategy = PreferTemplate ->
                   /\ merged_items' = Append(merged_items, item)
                   /\ base_map' = remove(base_map, name)
                   /\ UNCHANGED conflicts
              [] strategy = PreferManual ->
                   /\ merged_items' = Append(merged_items, base_map[name])
                   /\ base_map' = remove(base_map, name)
                   /\ conflicts' = Append(conflicts, ConflictInsertManual(name))
              [] strategy = FailOnConflict ->
                   /\ conflicts' = Append(conflicts, ConflictInsertFail(name))
                   /\ UNCHANGED <<merged_items, base_map>>
       ELSE /\ merged_items' = Append(merged_items, item)
            /\ UNCHANGED <<base_map, conflicts>>
    /\ NextOp

\* MergeDelete with the PreferManual push left out: the base item is dropped
MergeDelete_ManualNotKept ==
    /\ AtOp("Delete")
    /\ LET name == patch[op_idx].name IN
       IF contains_key(base_map, name)
       THEN CASE strategy = PreferTemplate ->
                   /\ base_map' = remove(base_map, name)
                   /\ UNCHANGED <<merged_items, conflicts>>
              [] strategy = PreferManual ->
                   /\ base_map' = remove(base_map, name)
                   /\ conflicts' = Append(conflicts, ConflictDeleteManual(name))
                   /\ UNCHANGED merged_items
              [] strategy = FailOnConflict ->
                   /\ conflicts' = Append(conflicts, ConflictDeleteFail(name))
                   /\ UNCHANGED <<merged_items, base_map>>
       ELSE UNCHANGED <<merged_items, base_map, conflicts>>
    /\ NextOp

\* PatchOp::Delete { name }
MergeDelete ==
    /\ AtOp("Delete")
    /\ LET name == patch[op_idx].name IN
       IF contains_key(base_map, name)
       THEN CASE strategy = PreferTemplate ->
                   /\ base_map' = remove(base_map, name)
                   /\ UNCHANGED <<merged_items, conflicts>>
              [] strategy = PreferManual ->
                   /\ merged_items' = Append(merged_items, base_map[name])
                   /\ base_map' = remove(base_map, name)
                   /\ conflicts' = Append(conflicts, ConflictDeleteManual(name))
              [] strategy = FailOnConflict ->
                   /\ conflicts' = Append(conflicts, ConflictDeleteFail(name))
                   /\ UNCHANGED <<merged_items, base_map>>
       ELSE UNCHANGED <<merged_items, base_map, conflicts>>
    /\ NextOp

\* PatchOp::Modify { name, old_item: _, new_item }
MergeModify ==
    /\ AtOp("Modify")
    /\ LET name == patch[op_idx].name
           new_item == patch[op_idx].new_item
       IN
       IF contains_key(base_map, name)
       THEN LET base_item == base_map[name]
                base_code == to_string(base_item)
                new_code == to_string(new_item)
            IN
            /\ base_map' = remove(base_map, name)
            /\ IF base_code = new_code
               THEN /\ merged_items' = Append(merged_items, new_item)
                    /\ UNCHANGED conflicts
               ELSE CASE strategy = PreferTemplate ->
                           /\ merged_items' = Append(merged_items, new_item)
                           /\ conflicts' = Append(conflicts, ConflictModifyTemplate(name))
                      [] strategy = PreferManual ->
                           /\ merged_items' = Append(merged_items, base_item)
                           /\ conflicts' = Append(conflicts, ConflictModifyManual(name))
                      [] strategy = FailOnConflict ->
                           /\ conflicts' = Append(conflicts, ConflictModifyFail(name))
                           /\ UNCHANGED merged_items
       ELSE /\ merged_items' = Append(merged_items, new_item)
            /\ UNCHANGED <<base_map, conflicts>>
    /\ NextOp

\* PatchOp::Keep { name }
MergeKeep ==
    /\ AtOp("Keep")
    /\ LET name == patch[op_idx].name IN
       IF contains_key(base_map, name)
       THEN /\ merged_items' = Append(merged_items, base_map[name])
            /\ base_map' = remove(base_map, name)
       ELSE UNCHANGED <<merged_items, base_map>>
    /\ UNCHANGED conflicts
    /\ NextOp

\* MergeResidual with the push left out: the residual entries are dropped
MergeResidual_Dropping ==
    /\ pc = "loop"
    /\ op_idx > Len(patch)
    /\ \E name \in DOMAIN base_map :
          /\ merged_items' = merged_items
          /\ base_map' = remove(base_map, name)
    /\ UNCHANGED io
    /\ UNCHANGED <<mode, old_items, new_items, base_items, patch, strategy,
                   conflicts, op_idx, pc>>

\* one iteration of `for (_name, item) in base_map`: a HashMap yields its
\* entries in an unspecified order
MergeResidual ==
    /\ pc = "loop"
    /\ op_idx > Len(patch)
    /\ \E name \in DOMAIN base_map :
          /\ merged_items' = Append(merged_items, base_map[name])
          /\ base_map' = remove(base_map, name)
    /\ UNCHANGED io
    /\ UNCHANGED <<mode, old_items, new_items, base_items, patch, strategy,
                   conflicts, op_idx, pc>>

\* Ok(MergeResult { merged_items, conflicts })
MergeReturn ==
    /\ pc = "loop"
    /\ op_idx > Len(patch)
    /\ DOMAIN base_map = {}
    /\ pc' = "done"
    /\ UNCHANGED io
    /\ UNCHANGED <<mode, old_items, new_items, base_items, patch, strategy,
                   merged_items, conflicts, base_map, op_idx>>

merge_locals == <<mode, old_items, new_items, base_items, patch, strategy,
                  merged_items, conflicts, base_map, op_idx>>

\* generate: if !merge_result.conflicts.is_empty() && strategy == FailOnConflict
\* { anyhow::bail!(..) }; main's `?` then returns without writing
GenerateBail ==
    /\ pc = "done"
    /\ mode = "generate"
    /\ conflicts # <<>> /\ strategy = FailOnConflict
    /\ result' = Err(bail_message(conflicts))
    /\ pc' = "bailed"
    /\ UNCHANGED <<stderr, output_file>>
    /\ UNCHANGED merge_locals

\* GenerateReturn without the FailOnConflict check
GenerateReturn_Unchecked ==
    /\ pc = "done"
    /\ mode = "generate"
    /\ stderr' = warnings(conflicts)
    /\ result' = Ok(format_merged_code(merged_items))
    /\ pc' = "generated"
    /\ UNCHANGED output_file
    /\ UNCHANGED merge_locals

\* generate: the warnings, format_merged_code(merge_result.merged_items)?,
\* Ok(merged_code)
GenerateReturn ==
    /\ pc = "done"
    /\ mode = "generate"
    /\ ~(conflicts # <<>> /\ strategy = FailOnConflict)
    /\ stderr' = warnings(conflicts)
    /\ result' = Ok(format_merged_code(merged_items))
    /\ pc' = "generated"
    /\ UNCHANGED output_file
    /\ UNCHANGED merge_locals

\* main: fs::write(&output, result)?
MainWrite ==
    /\ pc = "generated"
    /\ output_file' = result[2]
    /\ pc' = "written"
    /\ UNCHANGED <<result, stderr>>
    /\ UNCHANGED merge_locals

Next ==
    \/ ComputePatch
    \/ MergeStart
    \/ MergeInsert
    \/ MergeDelete
    \/ MergeModify
    \/ MergeKeep
    \/ MergeResidual
    \/ MergeReturn
    \/ GenerateBail
    \/ GenerateReturn
    \/ MainWrite

Spec == Init /\ [][Next]_vars

-----------------------------------------------------------------------------
(* Vocabulary of the properties *)

IsNamed(item) == extract_item_name(item) # None
names_of(items) == {items[i].ident : i \in {j \in 1..Len(items) : IsNamed(items[j])}}
NamedOf(items) == SelectSeq(items, IsNamed)
IsUnnamed(item) == ~IsNamed(item)
UnnamedOf(items) == SelectSeq(items, IsUnnamed)
Contains(items, item) == \E i \in 1..Len(items) : items[i] = item
HasCanon(items, item) == \E i \in 1..Len(items) : to_string(items[i]) = to_string(item)
AllNamed(items) == \A i \in 1..Len(items) : IsNamed(items[i])
NoDuplicateNames(items) ==
    \A i, j \in 1..Len(items) :
        (IsNamed(items[i]) /\ IsNamed(items[j]) /\ items[i].ident = items[j].ident) => i = j
OpsNaming(ops, n) == {i \in 1..Len(ops) : ops[i].name = n}
Logged(c) == \E i \in 1..Len(conflicts) : conflicts[i] = c
\* the step appends exactly one conflict, and it is about name n
LogsConflictFor(n) ==
    /\ Len(conflicts') = Len(conflicts) + 1
    /\ SubSeq(conflicts', 1, Len(conflicts)) = conflicts
    /\ conflicts'[Len(conflicts')][2] = n

-----------------------------------------------------------------------------
(* C1: generate with an existing file under PreferManual, where the existing
   file holds a named item the template does not emit and every item the
   template emits is canonically identical to the existing one: the merged
   output holds the template items and the hand-added item, and the conflict
   list is empty.  Stated for the plain case of the claim: every item named,
   no name twice in a list. *)
C1_Case ==
    /\ mode = "generate"
    /\ strategy = PreferManual
    /\ AllNamed(old_items) /\ AllNamed(new_items)
    /\ NoDuplicateNames(old_items) /\ NoDuplicateNames(new_items)
    /\ new_items # <<>>
    /\ names_of(old_items) \ names_of(new_items) # {}
    /\ \A i \in 1..Len(new_items) : HasCanon(old_items, new_items[i])

C1_ManualAdditionKeptWithoutConflict ==
    (C1_Case /\ pc = "done") =>
        /\ \A i \in 1..Len(new_items) : HasCanon(merged_items, new_items[i])
        /\ \A i \in 1..Len(old_items) : HasCanon(merged_items, old_items[i])
        /\ conflicts = <<>>

(* C2: a Modify(n, old, new) applied while base holds an item named n that is
   canonically equal to old: under every strategy new is appended, the base
   entry is removed and no conflict is logged. *)
C2_ModifyOfUneditedItemTakesNew ==
    [][ (/\ AtOp("Modify")
         /\ contains_key(base_map, patch[op_idx].name)
         /\ to_string(base_map[patch[op_idx].name]) = to_string(patch[op_idx].old_item))
        => (/\ merged_items' = Append(merged_items, patch[op_idx].new_item)
            /\ ~contains_key(base_map', patch[op_idx].name)
            /\ conflicts' = conflicts) ]_vars

(* C3: a Modify(name(X), X, X'') applied while base holds X', canonically
   different from X: PreferTemplate appends X'' and logs a conflict,
   PreferManual appends X' and logs a conflict, FailOnConflict logs a conflict
   and appends nothing. *)
C3_ModifyOfEditedItemFollowsStrategy ==
    [][ (/\ AtOp("Modify")
         /\ contains_key(base_map, patch[op_idx].name)
         /\ to_string(base_map[patch[op_idx].name]) # to_string(patch[op_idx].old_item))
        => (/\ LogsConflictFor(patch[op_idx].name)
            /\ strategy = PreferTemplate =>
                   merged_items' = Append(merged_items, patch[op_idx].new_item)
            /\ strategy = PreferManual =>
                   merged_items' = Append(merged_items, base_map[patch[op_idx].name])
            /\ strategy = FailOnConflict => merged_items' = merged_items) ]_vars

(* C4: under FailOnConflict, when a conflict was logged for n by an Insert or
   a Delete that found n in base, the returned list holds no item named n.
   Stated for names that a single operation of the patch carries. *)
C4_FailOnConflictDropsBaseEntry ==
    (pc = "done" /\ strategy = FailOnConflict) =>
        \A n \in Names :
            (/\ Logged(ConflictInsertFail(n)) \/ Logged(ConflictDeleteFail(n))
             /\ Cardinality(OpsNaming(patch, n)) = 1)
            => n \notin names_of(merged_items)

(* C5: every base item without an identifier is in the list merge_patch
   returns, these items in their original relative order, after the named
   items. *)
C5_UnnamedBaseItemsKept ==
    pc = "done" =>
        merged_items = NamedOf(merged_items) \o UnnamedOf(base_items)

(* C6: in generate with an existing file, every item without an identifier of
   the newly rendered list is in the merged output, under every strategy. *)
C6_UnnamedGeneratedItemsAppended ==
    (mode = "generate" /\ pc = "done") =>
        \A i \in 1..Len(new_items) :
            IsUnnamed(new_items[i]) => Contains(merged_items, new_items[i])

(* C7: diff soundness: merging compute_patch(A, B) against A under
   PreferTemplate returns B's named items (same names, same canonical
   content) plus the unnamed items of A. *)
C7_DiffSoundness ==
    (mode = "generate" /\ strategy = PreferTemplate /\ pc = "done") =>
        /\ {to_string(merged_items[i]) : i \in {j \in 1..Len(merged_items) : IsNamed(merged_items[j])}}
             = {to_string(new_items[i]) : i \in {j \in 1..Len(new_items) : IsNamed(new_items[j])}}
        /\ UnnamedOf(merged_items) = UnnamedOf(old_items)

(* C8: empty-diff idempotence: compute_patch(A, A) holds only Keep
   operations, and merging it against A returns A, same items in the same
   order, without conflicts, under any strategy.  Stated for lists in which
   no name occurs twice. *)
C8_EmptyDiffIdempotence ==
    (mode = "generate" /\ old_items = new_items /\ NoDuplicateNames(old_items)) =>
        /\ pc # "diff" => is_empty(patch)
        /\ pc = "done" => (merged_items = old_items /\ conflicts = <<>>)

(* C9: manual-addition preservation: when names(A) and names(B) are disjoint,
   merging compute_patch(<<>>, B) against A under PreferManual returns a list
   whose set of names is names(A) \cup names(B), and logs no conflict. *)
C9_Case ==
    /\ mode = "manual_additions"
    /\ strategy = PreferManual
    /\ names_of(base_items) \cap names_of(new_items) = {}

C9_ManualAdditionPreservation ==
    (C9_Case /\ pc = "done") =>
        /\ names_of(merged_items) = names_of(base_items) \cup names_of(new_items)
        /\ conflicts = <<>>

C9_Witness ==
    /\ C9_Case /\ pc = "done"
    /\ names_of(base_items) # {}
    /\ names_of(new_items) # {}
    /\ patch = compute_patch(<<>>, new_items)

(* C10: patch minimality: for every name occurring in old or new, exactly one
   operation of compute_patch(old, new) carries that name.  Stated for lists
   in which no name occurs twice. *)
C10_PatchMinimality ==
    (/\ mode \in {"generate", "manual_additions"}
     /\ pc # "diff"
     /\ NoDuplicateNames(old_items) /\ NoDuplicateNames(new_items))
    => \A n \in names_of(old_items) \cup names_of(new_items) :
           Cardinality(OpsNaming(patch, n)) = 1

(* C11: compute_patch(old, new) is the reference sequence: walking new in
   order, a named item gives Insert(name, item) when no old item has the
   name, Keep(name) when the old item of that name has the same canonical
   form, Modify(name, old_item, new_item) otherwise; then one Delete(name) for
   each named old item that was not matched, in the order of old; unnamed
   items give no operation.  Stated for lists in which no name occurs
   twice. *)
C11_OldItemNamed(olds, n) ==
    olds[CHOOSE i \in 1..Len(olds) : IsNamed(olds[i]) /\ olds[i].ident = n]

C11_OpFor(olds, new_item) ==
    LET n == new_item.ident IN
    IF n \notin names_of(olds) THEN Insert(n, new_item)
    ELSE IF to_string(C11_OldItemNamed(olds, n)) = to_string(new_item) THEN Keep(n)
    ELSE Modify(n, C11_OldItemNamed(olds, n), new_item)

RECURSIVE C11_Walk(_, _)
C11_Walk(olds, news) ==
    IF news = <<>> THEN <<>>
    ELSE (IF IsNamed(Head(news)) THEN <<C11_OpFor(olds, Head(news))>> ELSE <<>>)
         \o C11_Walk(olds, Tail(news))

RECURSIVE C11_Deletes(_, _)
C11_Deletes(olds, news) ==
    IF olds = <<>> THEN <<>>
    ELSE (IF IsNamed(Head(olds)) /\ Head(olds).ident \notin names_of(news)
          THEN <<Delete(Head(olds).ident)>> ELSE <<>>)
         \o C11_Deletes(Tail(olds), news)

C11_PatchIsReferenceSequence ==
    (/\ mode \in {"generate", "manual_additions"}
     /\ pc # "diff"
     /\ NoDuplicateNames(old_items) /\ NoDuplicateNames(new_items))
    => patch = C11_Walk(old_items, new_items) \o C11_Deletes(old_items, new_items)

(* C12: Delete(n) applied while base holds an item named n: under
   PreferManual the base item is appended to the merged list and a conflict is
   logged; under PreferTemplate nothing is appended, no conflict is logged and
   the entry leaves base_map, so the returned list of a patch that is this
   single Delete holds no item named n.  Applied while base holds no item
   named n, Delete(n) changes neither the merged list nor the conflict log. *)
C12_SingleDelete ==
    /\ pc = "done"
    /\ Len(patch) = 1
    /\ patch[1].tag = "Delete"

C13_Collides(i) ==
    /\ pc = "done"
    /\ i \in 1..Len(patch)
    /\ patch[i].tag = "Insert"
    /\ OpsNaming(patch, patch[i].name) = {i}
    /\ patch[i].name \in names_of(base_items)

C13_InsertCollisionFollowsStrategy ==
    \A i \in 1..Len(patch) :
        (C13_Collides(i) /\ strategy \in {PreferManual, PreferTemplate}) =>
            LET n == patch[i].name
                hits == {j \in 1..Len(merged_items) :
                            IsNamed(merged_items[j]) /\ merged_items[j].ident = n}
            IN
            /\ Cardinality(hits) = 1
            /\ strategy = PreferManual =>
                  /\ \A j \in hits : merged_items[j] = collect_base_map(base_items)[n]
                  /\ Logged(ConflictInsertManual(n))
            /\ strategy = PreferTemplate =>
                  /\ \A j \in hits : merged_items[j] = patch[i].item
                  /\ \A k \in 1..Len(conflicts) : conflicts[k][2] # n

C13_Witness ==
    /\ C13_Collides(1)
    /\ strategy = PreferManual
    /\ to_string(patch[1].item) # to_string(collect_base_map(base_items)[patch[1].name])
    /\ Contains(merged_items, collect_base_map(base_items)[patch[1].name])
    /\ ~Contains(merged_items, patch[1].item)
    /\ Logged(ConflictInsertManual(patch[1].name))

(* C14: generate under FailOnConflict fails whenever the conflict list of the
   merge is not empty, and then the output file keeps its previous content;
   under PreferTemplate and PreferManual conflicts never fail the operation:
   generate returns the printed merged list, the conflicts go to stderr as
   warnings, and main writes the returned text to the output file. *)
C14_GenerateFailsOnlyOnFailOnConflict ==
    mode = "generate" =>
        /\ (pc \in {"generated", "written"} /\ strategy = FailOnConflict) => conflicts = <<>>
        /\ pc = "bailed" =>
              /\ strategy = FailOnConflict /\ conflicts # <<>>
              /\ result = Err(bail_message(conflicts))
              /\ output_file = format_merged_code(old_items)
        /\ (pc = "done" /\ strategy # FailOnConflict) => ENABLED GenerateReturn
        /\ pc \in {"generated", "written"} =>
              /\ result = Ok(format_merged_code(merged_items))
              /\ stderr = warnings(conflicts)
        /\ pc = "generated" => output_file = format_merged_code(old_items)
        /\ pc = "written" => output_file = format_merged_code(merged_items)

C14_Witness ==
    /\ mode = "generate"
    /\ pc = "bailed"
    /\ strategy = FailOnConflict
    /\ conflicts # <<>>
    /\ old_items # <<>>
    /\ output_file = format_merged_code(old_items)
    /\ output_file # format_merged_code(merged_items)

(* C15: idempotence of Keep: for a patch that holds only Keep operations,
   merge_patch returns the base list, same items in the same order, under
   every strategy.  Stated for base lists of named items in which no name
   occurs twice. *)
C15_KeepOnlyPatchReturnsBase ==
    (/\ mode = "merge_patch"
     /\ pc = "done"
     /\ is_empty(patch)
     /\ AllNamed(base_items) /\ NoDuplicateNames(base_items))
    => merged_items = base_items

(* C16: merge_patch is deterministic: from the same base list, patch and
   strategy every run returns the same merged list in the same order.  The
   patch loop is a function of its inputs, so the runs can differ only in the
   residual loop: whichever entry the iteration over base_map yields next,
   the merged list after the step is the same. *)
C16_ResidualStepIsDetermined ==
    [][ (pc = "loop" /\ op_idx > Len(patch)) =>
            \A name \in DOMAIN base_map :
                merged_items' = Append(merged_items, base_map[name]) ]_vars

(* C17: under PreferManual, for every base list of named items and every
   patch, every named base item is in the returned list with its canonical
   content unchanged, also when a name occurs more than once in base. *)
C17_ManualItemsNeverLost ==
    (pc = "done" /\ strategy = PreferManual /\ AllNamed(base_items)) =>
        \A i \in 1..Len(base_items) : HasCanon(merged_items, base_items[i])

====
